---- MODULE Spec2Model ----
(***************************************************************************)
(* Model of call.py: a sequential batch client that pages through the      *)
(* public documents of a CAD platform, finds the drawing elements of each  *)
(* document, asks the server to translate every drawing to DWG and PNG,    *)
(* polls until the translation leaves the ACTIVE state and writes the      *)
(* downloaded bytes to d<did>_w<wid>_e<eid>.<format> in the output         *)
(* directory.                                                              *)
(*                                                                         *)
(* Text is modelled as a sequence of one-character strings, so that string *)
(* formatting, lower-casing and "contains" are computed, not assumed.      *)
(* The remote service is the environment: every response is chosen         *)
(* nondeterministically from a small set of possible payloads.             *)
(***************************************************************************)
EXTENDS Integers, Sequences, FiniteSets, TLC

VARIABLES
    limit,          \* args.limit
    start,          \* args.offset
    run,            \* number of the current invocation of main on the same output directory
    files,          \* the output directory: file name -> contents
    pc,             \* position of the process in main / export_drawing_translation
    i,              \* main: index of the page loop
    loop_count,     \* main: number of pages to request
    documents,      \* main: documents of the current page not yet visited
    did, wid,       \* main: ids of the current document and its default workspace
    drawings,       \* main: drawings of the current document not yet exported
    eid,            \* main: id of the current drawing
    fi,             \* export_drawing_translation: index of the current format
    res_data,       \* export_drawing_translation: the last translation payload
    drawing_count,  \* main: the exported-drawing counter
    error,          \* the uncaught exception that ended the run, if any
    reported,       \* the drawing count printed at the end of main, -1 while not printed
    fmtLog,         \* client calls of the current export_drawing_translation call, per format reached
    sleeps,         \* time.sleep durations since the current format was reached
    pageRequests,   \* (offset, limit) of every get_documents call of this run
    docsSeen,       \* documents returned by get_documents in this run
    drawingsSeen,   \* drawing elements returned by list_elements in this run
    inA, inB,       \* two (did, wid, eid, format) tuples given to the naming function
    outA, outB      \* the file names computed for them

vars == <<limit, start, run, files, pc, i, loop_count, documents, did, wid, drawings,
          eid, fi, res_data, drawing_count, error, reported, fmtLog, sleeps,
          pageRequests, docsSeen, drawingsSeen, inA, inB, outA, outB>>

mainVars == <<limit, start, run, files, pc, i, loop_count, documents, did, wid, drawings,
              eid, fi, res_data, drawing_count, error, reported, fmtLog, sleeps,
              pageRequests, docsSeen, drawingsSeen>>

nameVars == <<inA, inB, outA, outB>>

----------------------------------------------------------------------------
(* Bounds of the model *)

MaxPages == 1       \* limits up to list_doc_limit * MaxPages + (list_doc_limit - 1) are tried
MaxActive == 2      \* a job answers ACTIVE to at most this many status requests
MaxRuns == 2        \* main is run at most this many times on the same output directory

(* Program constants *)

list_doc_limit == 20    \* main: page size
PollDelay == 2          \* wait_for_translation: time.sleep(2)
DownloadPause == 1      \* export_drawing_translation: time.sleep(1)

----------------------------------------------------------------------------
(* Text *)

UpperChars == <<"A","B","C","D","E","F","G","H","I","J","K","L","M",
                "N","O","P","Q","R","S","T","U","V","W","X","Y","Z">>
LowerChars == <<"a","b","c","d","e","f","g","h","i","j","k","l","m",
                "n","o","p","q","r","s","t","u","v","w","x","y","z">>

LowerChar(c) ==
    IF \E k \in 1..Len(UpperChars) : UpperChars[k] = c
    THEN LowerChars[CHOOSE k \in 1..Len(UpperChars) : UpperChars[k] = c]
    ELSE c

\* str.lower()
Lower(s) == [k \in 1..Len(s) |-> LowerChar(s[k])]

\* sub in s
Contains(s, sub) ==
    \E k \in 0..(Len(s) - Len(sub)) : SubSeq(s, k + 1, k + Len(sub)) = sub

HasChar(s, c) == \E k \in 1..Len(s) : s[k] = c

Last(s) == s[Len(s)]

----------------------------------------------------------------------------
(* export_drawing_translation: the output file name *)

\* faulty variant: the workspace id is left out of the name
OutputNameNoWorkspace(d, w, e, format) ==
    <<"d">> \o d \o <<"_", "e">> \o e \o <<".">> \o Lower(format)

\* f'd{did}_w{wid}_e{eid}.{format.lower()}'
OutputName(d, w, e, format) ==
    <<"d">> \o d \o <<"_", "w">> \o w \o <<"_", "e">> \o e \o <<".">> \o Lower(format)

\* formats=['DWG', 'PNG']
formats == << <<"D","W","G">>, <<"P","N","G">> >>

----------------------------------------------------------------------------
(* The remote service: the payloads the client may hand back *)

\* get_documents: the 'items' of a page, each with 'id' and 'defaultWorkspace'.'id'
Doc1 == [id |-> <<"1">>, defaultWorkspace |-> <<"2">>]
Doc2 == [id |-> <<"3">>, defaultWorkspace |-> <<"4">>]
DocumentPages == { <<>>, <<Doc1>>, <<Doc1, Doc2>> }

\* list_elements: elements with 'id' and 'dataType'
DrawingType == "onshape-app/drawing"
Drawing5 == [id |-> <<"5">>, dataType |-> DrawingType]
PartStudio7 == [id |-> <<"7">>, dataType |-> "onshape-app/partstudio"]
ElementLists == { <<PartStudio7>>, <<Drawing5, PartStudio7>> }

\* translation payloads: 'requestState', 'failureReason', 'id', 'resultExternalDataIds'
Reasons == { <<"b","a","d">>, <<"t","o","o"," ","b","i","g">> }
JobId == <<"j","9">>
Blob1 == <<"b","1">>
Blob2 == <<"b","2">>
BlobLists == { <<>>, <<Blob1>>, <<Blob2, Blob1>> }

Payload(state, reason, blobs) ==
    [requestState |-> state, failureReason |-> reason, id |-> JobId,
     resultExternalDataIds |-> blobs]

NoPayload == Payload("NONE", <<>>, <<>>)

\* responses of get_drawing_translation
SubmitResponses ==
    {Payload("ACTIVE", <<>>, <<>>), Payload("DONE", <<>>, <<Blob1>>)}
        \cup {Payload("FAILED", r, <<>>) : r \in Reasons}

\* responses of get_translation_status
StatusResponses ==
    {Payload("ACTIVE", <<>>, <<>>)}
        \cup {Payload("DONE", <<>>, b) : b \in BlobLists}
        \cup {Payload("FAILED", r, <<>>) : r \in Reasons}

\* download_external_data: the bytes of res.content, or the client raising
Contents == { <<104, 105>>, <<>> }
ClientError == <<-1>>
DownloadResults == Contents \cup {ClientError}

----------------------------------------------------------------------------
(* Exceptions *)

NoError == [type |-> "", msg |-> <<>>]

FailedPrefix ==
    <<"T","r","a","n","s","l","a","t","i","o","n"," ","r","e","q","u","e","s","t"," ",
      "f","a","i","l","e","d",":"," ">>

\* Exception(f'Translation request failed: {res_data["failureReason"]}')
FailureMessage(payload) == FailedPrefix \o payload.failureReason

TranslationFailed(payload) == [type |-> "Exception", msg |-> FailureMessage(payload)]

\* res_data['resultExternalDataIds'][0] on an empty list
IndexError ==
    [type |-> "IndexError",
     msg |-> <<"l","i","s","t"," ","i","n","d","e","x"," ","o","u","t"," ","o","f"," ",
               "r","a","n","g","e">>]

\* the client raising inside download_external_data
DownloadError == [type |-> "ClientError", msg |-> <<>>]

----------------------------------------------------------------------------
(* The record of client calls, kept per format reached by one               *)
(* export_drawing_translation call                                          *)

Call(op, arg, state) == [op |-> op, arg |-> arg, state |-> state]

Entry(name, existed) == [name |-> name, existed |-> existed, written |-> FALSE, trace |-> <<>>]

\* the log with one more client call recorded for the current format
Logged(log, call) ==
    [log EXCEPT ![Len(log)].trace = Append(@, call)]

StatusCalls(trace) == SelectSeq(trace, LAMBDA c : c.op = "get_translation_status")

----------------------------------------------------------------------------
(* main: arguments and set-up *)

\* int(args.limit / list_doc_limit): true division, then truncation towards zero
PageCount(l) ==
    IF l >= 0 THEN l \div list_doc_limit ELSE -((-l) \div list_doc_limit)

Limits == {list_doc_limit * q + r : q \in 0..MaxPages, r \in {0, list_doc_limit - 1}}
Starts == {0, 7}

NameIdle ==
    /\ inA = << <<>>, <<>>, <<>>, <<>> >>
    /\ inB = << <<>>, <<>>, <<>>, <<>> >>
    /\ outA = <<>>
    /\ outB = <<>>

\* the state of main before its page loop, on output directory fs
MainStart(l, s, r, fs) ==
    /\ limit = l
    /\ start = s
    /\ run = r
    /\ files = fs
    /\ pc = "pages"
    /\ i = 0
    /\ loop_count = PageCount(l)
    /\ documents = <<>>
    /\ did = <<>>
    /\ wid = <<>>
    /\ drawings = <<>>
    /\ eid = <<>>
    /\ fi = 1
    /\ res_data = NoPayload
    /\ drawing_count = 0
    /\ error = NoError
    /\ reported = -1
    /\ fmtLog = <<>>
    /\ sleeps = <<>>
    /\ pageRequests = <<>>
    /\ docsSeen = 0
    /\ drawingsSeen = 0

Init ==
    /\ \E l \in Limits, s \in Starts : MainStart(l, s, 1, <<>>)
    /\ NameIdle

----------------------------------------------------------------------------
(* main: the page loop *)

\* for i in range(loop_count): list_documents(client, offset, list_doc_limit)
ListDocuments ==
    /\ pc = "pages"
    /\ i < loop_count
    /\ \E items \in DocumentPages :
        /\ documents' = items
        /\ docsSeen' = docsSeen + Len(items)
    /\ pageRequests' = Append(pageRequests, <<start + i * list_doc_limit, list_doc_limit>>)
    /\ pc' = "documents"
    /\ UNCHANGED <<limit, start, run, files, i, loop_count, did, wid, drawings, eid, fi,
                   res_data, drawing_count, error, reported, fmtLog, sleeps, drawingsSeen>>
    /\ UNCHANGED nameVars

\* the page loop is exhausted: print(f'Drawing count: {drawing_count} from ...')
Finish ==
    /\ pc = "pages"
    /\ i >= loop_count
    /\ reported' = drawing_count
    /\ pc' = "done"
    /\ UNCHANGED <<limit, start, run, files, i, loop_count, documents, did, wid, drawings,
                   eid, fi, res_data, drawing_count, error, fmtLog, sleeps, pageRequests,
                   docsSeen, drawingsSeen>>
    /\ UNCHANGED nameVars

\* list_drawings_from_document: keep the elements whose dataType is the drawing type
list_drawings_from_document(elements) ==
    SelectSeq(elements, LAMBDA element : element.dataType = DrawingType)

\* for document in documents: ... drawings = list_drawings_from_document(client, did, wid)
NextDocument ==
    /\ pc = "documents"
    /\ documents # <<>>
    /\ did' = Head(documents).id
    /\ wid' = Head(documents).defaultWorkspace
    /\ documents' = Tail(documents)
    /\ \E elements \in ElementLists :
        /\ drawings' = list_drawings_from_document(elements)
        /\ drawingsSeen' = drawingsSeen + Len(list_drawings_from_document(elements))
    /\ pc' = "drawings"
    /\ UNCHANGED <<limit, start, run, files, i, loop_count, eid, fi, res_data,
                   drawing_count, error, reported, fmtLog, sleeps, pageRequests, docsSeen>>
    /\ UNCHANGED nameVars

\* the documents of the page are exhausted: next i
PageDone ==
    /\ pc = "documents"
    /\ documents = <<>>
    /\ i' = i + 1
    /\ pc' = "pages"
    /\ UNCHANGED <<limit, start, run, files, loop_count, documents, did, wid, drawings,
                   eid, fi, res_data, drawing_count, error, reported, fmtLog, sleeps,
                   pageRequests, docsSeen, drawingsSeen>>
    /\ UNCHANGED nameVars

\* for drawing in drawings: export_drawing_translation(client, did, wid, eid, output_dir)
StartExport ==
    /\ pc = "drawings"
    /\ drawings # <<>>
    /\ eid' = Head(drawings).id
    /\ drawings' = Tail(drawings)
    /\ fi' = 1
    /\ fmtLog' = <<>>
    /\ sleeps' = <<>>
    /\ res_data' = NoPayload
    /\ pc' = "formats"
    /\ UNCHANGED <<limit, start, run, files, i, loop_count, documents, did, wid,
                   drawing_count, error, reported, pageRequests, docsSeen, drawingsSeen>>
    /\ UNCHANGED nameVars

\* the drawings of the document are exhausted: next document
DocumentDone ==
    /\ pc = "drawings"
    /\ drawings = <<>>
    /\ pc' = "documents"
    /\ UNCHANGED <<limit, start, run, files, i, loop_count, documents, did, wid, drawings,
                   eid, fi, res_data, drawing_count, error, reported, fmtLog, sleeps,
                   pageRequests, docsSeen, drawingsSeen>>
    /\ UNCHANGED nameVars

----------------------------------------------------------------------------
(* export_drawing_translation *)

\* output_file of the format the loop is at
OutputFile == OutputName(did, wid, eid, formats[fi])

\* faulty variant: the existence check never finds the file
output_file_never_exists(name) == FALSE

\* output_file.exists()
output_file_exists(name) == name \in DOMAIN files

\* faulty variant: the state of the submission response is not checked
FailedAtSubmitIgnored(payload) == FALSE

\* if res_data['requestState'] == 'FAILED' (after get_drawing_translation)
FailedAtSubmit(payload) == payload.requestState = "FAILED"

\* if res_data['requestState'] == 'FAILED' (after wait_for_translation)
FailedAfterWait(payload) == payload.requestState = "FAILED"

\* faulty variant: main catches the exception and goes on with the next drawing
RaisedButCaught == "drawings"

\* an exception raised in export_drawing_translation is caught nowhere: main ends
Raised == "aborted"

\* the request of the current format, submitted with the log at `log`
Submit(log) ==
    \E r \in SubmitResponses :
        /\ res_data' = r
        /\ fmtLog' = Logged(log, Call("get_drawing_translation", formats[fi], r.requestState))
        /\ IF FailedAtSubmit(r)
           THEN /\ error' = TranslationFailed(r)
                /\ pc' = Raised
           ELSE /\ error' = error
                /\ pc' = "wait"
        /\ fi' = fi
        /\ sleeps' = <<>>

\* faulty variant: the skip branch lacks its continue and falls through to the request
FormatSkipWithoutContinue ==
    /\ pc = "formats"
    /\ fi <= Len(formats)
    /\ output_file_exists(OutputFile)
    /\ Submit(Append(fmtLog, Entry(OutputFile, OutputFile \in DOMAIN files)))
    /\ UNCHANGED <<limit, start, run, files, i, loop_count, documents, did, wid, drawings,
                   eid, drawing_count, reported, pageRequests, docsSeen, drawingsSeen>>
    /\ UNCHANGED nameVars

\* if output_file.exists(): print(f'Skipping: {output_file}'); continue
FormatSkip ==
    /\ pc = "formats"
    /\ fi <= Len(formats)
    /\ output_file_exists(OutputFile)
    /\ fmtLog' = Append(fmtLog, Entry(OutputFile, OutputFile \in DOMAIN files))
    /\ fi' = fi + 1
    /\ sleeps' = <<>>
    /\ UNCHANGED <<limit, start, run, files, pc, i, loop_count, documents, did, wid,
                   drawings, eid, res_data, drawing_count, error, reported, pageRequests,
                   docsSeen, drawingsSeen>>
    /\ UNCHANGED nameVars

\* res = client.get_drawing_translation(did, wid, eid, payload=request_body), and the
\* check of its requestState
RequestTranslation ==
    /\ pc = "formats"
    /\ fi <= Len(formats)
    /\ ~output_file_exists(OutputFile)
    /\ Submit(Append(fmtLog, Entry(OutputFile, OutputFile \in DOMAIN files)))
    /\ UNCHANGED <<limit, start, run, files, i, loop_count, documents, did, wid, drawings,
                   eid, drawing_count, reported, pageRequests, docsSeen, drawingsSeen>>
    /\ UNCHANGED nameVars

\* faulty variant: the sleep precedes the test of the state
SleepsAfterEveryStatus(s, payload) == Append(s, PollDelay)

\* wait_for_translation: time.sleep(2) when the state is ACTIVE
SleepsAfterStatus(s, payload) ==
    IF payload.requestState = "ACTIVE" THEN Append(s, PollDelay) ELSE s

\* faulty variant: a maximum attempt count; the loop returns the ACTIVE payload
GivesUpAfterOnePoll(payload) ==
    /\ payload.requestState = "ACTIVE"
    /\ Len(StatusCalls(Last(fmtLog).trace)) < 1

\* wait_for_translation: if state == 'ACTIVE': ... continue
KeepsPolling(payload) == payload.requestState = "ACTIVE"

\* the ACTIVE answers the current job has given so far
ActiveAnswers == Len(SelectSeq(StatusCalls(Last(fmtLog).trace), LAMBDA c : c.state = "ACTIVE"))

\* one turn of the loop of wait_for_translation; when it returns, the check of the final
\* requestState in export_drawing_translation
PollStatus ==
    /\ pc = "wait"
    /\ \E r \in StatusResponses :
        /\ r.requestState = "ACTIVE" => ActiveAnswers < MaxActive
        /\ fmtLog' = Logged(fmtLog, Call("get_translation_status", res_data.id, r.requestState))
        /\ sleeps' = SleepsAfterStatus(sleeps, r)
        /\ IF KeepsPolling(r)
           THEN /\ pc' = "wait"
                /\ UNCHANGED <<res_data, error>>
           ELSE /\ res_data' = r
                /\ IF FailedAfterWait(r)
                   THEN /\ error' = TranslationFailed(r)
                        /\ pc' = Raised
                   ELSE /\ error' = error
                        /\ pc' = "download"
    /\ UNCHANGED <<limit, start, run, files, i, loop_count, documents, did, wid, drawings,
                   eid, fi, drawing_count, reported, pageRequests, docsSeen, drawingsSeen>>
    /\ UNCHANGED nameVars

\* faulty variant: the file is opened before the download, which may raise
FilesWhenOpenedBeforeDownload(fs, name, result) ==
    IF result = ClientError THEN (name :> <<>>) @@ fs ELSE (name :> result) @@ fs

\* the directory after download_external_data and, when it returned,
\* open(output_file, 'wb') ... f.write(res.content)
FilesAfterDownload(fs, name, result) ==
    IF result = ClientError THEN fs ELSE (name :> result) @@ fs

\* ex_data_id = res_data['resultExternalDataIds'][0]; download; write; time.sleep(1)
Download ==
    /\ pc = "download"
    /\ IF res_data.resultExternalDataIds = <<>>
       THEN /\ error' = IndexError
            /\ pc' = Raised
            /\ UNCHANGED <<files, fmtLog, fi, sleeps>>
       ELSE \E result \in DownloadResults :
            /\ files' = FilesAfterDownload(files, OutputFile, result)
            /\ IF result = ClientError
               THEN /\ fmtLog' = Logged(fmtLog, Call("download_external_data",
                                                    res_data.resultExternalDataIds[1], "ERROR"))
                    /\ error' = DownloadError
                    /\ pc' = Raised
                    /\ UNCHANGED <<fi, sleeps>>
               ELSE /\ fmtLog' = [Logged(fmtLog, Call("download_external_data",
                                                     res_data.resultExternalDataIds[1], "OK"))
                                     EXCEPT ![Len(fmtLog)].written = TRUE]
                    /\ error' = error
                    /\ sleeps' = Append(sleeps, DownloadPause)
                    /\ fi' = fi + 1
                    /\ pc' = "formats"
    /\ UNCHANGED <<limit, start, run, i, loop_count, documents, did, wid, drawings, eid,
                   res_data, drawing_count, reported, pageRequests, docsSeen, drawingsSeen>>
    /\ UNCHANGED nameVars

\* faulty variant: the counter is advanced once per file written
CountPerFormat(c) ==
    c + Len(SelectSeq(fmtLog, LAMBDA e : e.written))

\* drawing_count += 1
CountAfterExport(c) == c + 1

\* the format loop is exhausted: export_drawing_translation returns to main
ExportReturn ==
    /\ pc = "formats"
    /\ fi > Len(formats)
    /\ drawing_count' = CountAfterExport(drawing_count)
    /\ res_data' = NoPayload
    /\ pc' = "drawings"
    /\ fmtLog' = <<>>
    /\ sleeps' = <<>>
    /\ UNCHANGED <<limit, start, run, files, i, loop_count, documents, did, wid, drawings,
                   eid, fi, error, reported, pageRequests, docsSeen, drawingsSeen>>
    /\ UNCHANGED nameVars

----------------------------------------------------------------------------
(* A later sequential run of main, with the same arguments, on the same directory *)

Restart ==
    /\ pc \in {"done", "aborted"}
    /\ run < MaxRuns
    /\ run' = run + 1
    /\ pc' = "pages"
    /\ i' = 0
    /\ loop_count' = PageCount(limit)
    /\ documents' = <<>>
    /\ did' = <<>>
    /\ wid' = <<>>
    /\ drawings' = <<>>
    /\ eid' = <<>>
    /\ fi' = 1
    /\ res_data' = NoPayload
    /\ drawing_count' = 0
    /\ error' = NoError
    /\ reported' = -1
    /\ fmtLog' = <<>>
    /\ sleeps' = <<>>
    /\ pageRequests' = <<>>
    /\ docsSeen' = 0
    /\ drawingsSeen' = 0
    /\ UNCHANGED <<limit, start, files>>
    /\ UNCHANGED nameVars

Next ==
    \/ ListDocuments
    \/ Finish
    \/ NextDocument
    \/ PageDone
    \/ StartExport
    \/ DocumentDone
    \/ FormatSkip
    \/ RequestTranslation
    \/ PollStatus
    \/ Download
    \/ ExportReturn
    \/ Restart

Spec == Init /\ [][Next]_vars

\* main started with a limit of exactly one page
LiveInit ==
    /\ \E s \in Starts : MainStart(list_doc_limit, s, 1, <<>>)
    /\ NameIdle

\* the process is sequential and never blocked by anything but the service: it takes
\* its next step whenever it has one
LiveSpec == LiveInit /\ [][Next]_vars /\ WF_vars(Next)

----------------------------------------------------------------------------
(* The naming function on its own: two tuples are named and the names compared *)

NameDocIds == { <<"1">>, <<"2">>, <<"1","_","w","2">>, <<"2","_","w","1">> }
NameElemIds == { <<"3">>, <<"3",".","x">> }
NameFormats == { <<"D","W","G">>, <<"d","w","g">>, <<"P","N","G">>, <<"Y">>, <<"X",".","Y">> }
NameTuples == NameDocIds \X NameDocIds \X NameElemIds \X NameFormats

NameInit ==
    /\ MainStart(0, 0, 1, <<>>)
    /\ inA \in NameTuples
    /\ inB \in NameTuples
    /\ outA = <<>>
    /\ outB = <<>>

ApplyName ==
    /\ outA = <<>>
    /\ outB = <<>>
    /\ outA' = OutputName(inA[1], inA[2], inA[3], inA[4])
    /\ outB' = OutputName(inB[1], inB[2], inB[3], inB[4])
    /\ UNCHANGED <<inA, inB>>
    /\ UNCHANGED mainVars

NameNext == ApplyName

NameSpec == NameInit /\ [][NameNext]_vars

----------------------------------------------------------------------------
(* Properties *)

\* the client calls recorded for the format the process is at (or was last at)
Current == Last(fmtLog)
CurrentStatus == StatusCalls(Current.trace)
PollSleeps == Len(SelectSeq(sleeps, LAMBDA d : d = PollDelay))
ExportAtEnd == pc = "formats" /\ fi > Len(formats)

\* C1: a format whose output file exists when the format is reached gets no
\* translation request, no status poll and no download; an export_drawing_translation
\* call that finds every format's file present makes no client call at all.
C1_ExistingFileMakesNoCall ==
    /\ \A k \in DOMAIN fmtLog :
          fmtLog[k].existed => fmtLog[k].trace = <<>> /\ ~fmtLog[k].written
    /\ (ExportAtEnd /\ \A k \in DOMAIN fmtLog : fmtLog[k].existed)
          => /\ \A k \in DOMAIN fmtLog : Len(fmtLog[k].trace) = 0
             /\ sleeps = <<>>
             /\ res_data = NoPayload

C1_Witness ==
    /\ run = 2
    /\ ExportAtEnd
    /\ Len(fmtLog) = Len(formats)
    /\ \A k \in DOMAIN fmtLog : fmtLog[k].existed /\ fmtLog[k].name \in DOMAIN files

\* C2: a file of the output directory keeps its contents for ever, in this run and in
\* later runs, and the directory changes only for a path that did not exist when its
\* format was reached.
C2_NeverOverwritten ==
    [][ /\ \A f \in DOMAIN files : f \in DOMAIN files' /\ files'[f] = files[f]
        /\ files' # files => /\ OutputFile \notin DOMAIN files
                             /\ ~Last(fmtLog').existed
                             /\ Last(fmtLog').name = OutputFile ]_vars

C2_Witness ==
    /\ run = 2
    /\ pc = "formats"
    /\ \E k \in DOMAIN fmtLog : fmtLog[k].existed /\ fmtLog[k].name \in DOMAIN files
    /\ \E k \in DOMAIN fmtLog : fmtLog[k].written

\* C3: when the submission response is FAILED the run ends with an exception whose
\* message contains the failureReason of that response, and the format has had no
\* status poll, no download and no file.
C3_SubmitFailed ==
    \A k \in DOMAIN fmtLog :
        (fmtLog[k].trace # <<>> /\ fmtLog[k].trace[1].state = "FAILED")
            => /\ k = Len(fmtLog)
               /\ fmtLog[k].trace[1].op = "get_drawing_translation"
               /\ Len(fmtLog[k].trace) = 1
               /\ ~fmtLog[k].written
               /\ fmtLog[k].name \notin DOMAIN files
               /\ pc = "aborted"
               /\ error.type = "Exception"
               /\ res_data.failureReason \in Reasons
               /\ Contains(error.msg, res_data.failureReason)

C3_Witness ==
    /\ pc = "aborted"
    /\ fmtLog # <<>>
    /\ Len(Current.trace) = 1
    /\ Current.trace[1].state = "FAILED"
    /\ Contains(error.msg, <<"b","a","d">>)

\* C4: wait_for_translation returns the payload of the first status response that is
\* not ACTIVE: after k ACTIVE responses and one other it has made k+1 status requests
\* and slept k times for two seconds, none after the final response.
C4_WaitReturnsFirstNonActive ==
    (fmtLog # <<>> /\ CurrentStatus # <<>>)
        => LET S == CurrentStatus
               k == Len(SelectSeq(S, LAMBDA c : c.state = "ACTIVE"))
           IN /\ \A j \in 1..(Len(S) - 1) : S[j].state = "ACTIVE"
              /\ \A j \in 1..Len(S) : S[j].arg = JobId
              /\ IF Last(S).state = "ACTIVE"
                 THEN /\ pc = "wait"
                      /\ Len(S) = k
                      /\ PollSleeps = k
                 ELSE /\ pc # "wait"
                      /\ Len(S) = k + 1
                      /\ PollSleeps = k
                      /\ res_data \in StatusResponses
                      /\ res_data.requestState = Last(S).state

C4_Witness ==
    /\ pc = "download"
    /\ fmtLog # <<>>
    /\ [j \in 1..Len(CurrentStatus) |-> CurrentStatus[j].state] = <<"ACTIVE", "ACTIVE", "DONE">>
    /\ sleeps = <<PollDelay, PollDelay>>
    /\ res_data.requestState = "DONE"

\* a translation of the current export reported FAILED
TranslationReportedFailed ==
    /\ fmtLog # <<>>
    /\ \E j \in DOMAIN Current.trace : Current.trace[j].state = "FAILED"

C5_FailureState ==
    /\ TranslationReportedFailed
          => /\ pc = "aborted"
             /\ error.type = "Exception"
             /\ res_data.requestState = "FAILED"
             /\ Contains(error.msg, res_data.failureReason)
             /\ Last(Current.trace).state = "FAILED"
             /\ \A j \in DOMAIN Current.trace : Current.trace[j].op # "download_external_data"
             /\ ~Current.written
             /\ Current.name \notin DOMAIN files
             /\ reported = -1
    /\ error # NoError => pc = "aborted" /\ reported = -1
    /\ reported # -1 => pc = "done" /\ i >= loop_count /\ error = NoError

\* C5: a translation that reports FAILED, at submission or as the final polled state,
\* ends the run: the exception carries the reason, the format gets no download and no
\* file, no request of any kind follows in the run and the drawing count is not
\* printed; the count is printed only when the page loop is exhausted.
C5_FailureAbortsRun ==
    /\ []C5_FailureState
    /\ [][ (error # NoError /\ run' = run)
              => UNCHANGED <<files, fmtLog, pageRequests, docsSeen, drawingsSeen,
                             reported, pc>> ]_vars

C5_Witness ==
    /\ pc = "aborted"
    /\ TranslationReportedFailed
    /\ Len(CurrentStatus) >= 1
    /\ documents # <<>>
    /\ drawing_count = 0

\* C6: the counter counts drawings, not formats: at the end of main it is the number
\* of drawing elements listed (each had its export return), and with one document
\* holding one drawing, an empty directory and both translations succeeding, two
\* files are written and the counter is 1.
C6_CountsPerDrawing ==
    /\ drawing_count <= drawingsSeen
    /\ pc = "done"
          => /\ drawing_count = drawingsSeen
             /\ reported = drawing_count
             /\ (run = 1 /\ docsSeen = 1 /\ drawingsSeen = 1)
                   => /\ drawing_count = 1
                      /\ DOMAIN files = {OutputName(did, wid, eid, formats[f]) : f \in 1..Len(formats)}
                      /\ Cardinality(DOMAIN files) = 2

C6_Witness ==
    /\ pc = "done"
    /\ run = 1
    /\ docsSeen = 1
    /\ drawingsSeen = 1
    /\ Cardinality(DOMAIN files) = 2
    /\ reported = 1

\* C7: the pages requested cover the limit: at the end of main, page size times the
\* number of get_documents calls is at least args.limit.
C7_PagesCoverLimit ==
    pc = "done" => list_doc_limit * Len(pageRequests) >= limit

\* an id or a format that the name can be split back into
NoUnderscore(s) == ~HasChar(s, "_")
NoDot(s) == ~HasChar(s, ".")
Separable(t) == NoUnderscore(t[1]) /\ NoUnderscore(t[2]) /\ NoDot(t[4])

\* C8 as stated: any two distinct (document, workspace, element, format) tuples get
\* distinct file names.
C8_CollisionFree ==
    (outA # <<>> /\ inA # inB) => outA # outB

\* C8, amended: the name is d<did>_w<wid>_e<eid>.<format lower-cased>, and two tuples
\* whose document and workspace ids hold no "_" and whose formats hold no "." get
\* distinct names whenever they differ in an id or in the lower-cased format.
C8_NameShape ==
    outA # <<>>
        => /\ Len(outA) = Len(inA[1]) + Len(inA[2]) + Len(inA[3]) + Len(inA[4]) + 6
           /\ inA = << <<"1">>, <<"2">>, <<"3">>, <<"D","W","G">> >>
                 => outA = <<"d","1","_","w","2","_","e","3",".","d","w","g">>
           /\ inA = inB => outA = outB
           /\ ( /\ Separable(inA)
                /\ Separable(inB)
                /\ \/ inA[1] # inB[1]
                   \/ inA[2] # inB[2]
                   \/ inA[3] # inB[3]
                   \/ Lower(inA[4]) # Lower(inB[4]) )
                 => outA # outB

C8_Witness ==
    /\ outA = <<"d","1","_","w","2","_","e","3",".","d","w","g">>
    /\ inB = << <<"1">>, <<"2">>, <<"3",".","x">>, <<"P","N","G">> >>
    /\ outB # <<>>

\* C9: wait_for_translation does not return while the latest status response is
\* ACTIVE: an ACTIVE response leaves the process polling the same job, with nothing
\* downloaded or written; and a job that stops answering ACTIVE is waited for only
\* finitely long.
C9_PollsUntilNotActive ==
    /\ [](pc = "download" => /\ res_data.requestState # "ACTIVE"
                             /\ Last(CurrentStatus).state # "ACTIVE")
    /\ [][ (pc = "wait" /\ pc' = "wait")
              => /\ Last(StatusCalls(Last(fmtLog').trace)).state = "ACTIVE"
                 /\ Len(Last(fmtLog').trace) = Len(Current.trace) + 1
                 /\ UNCHANGED <<files, fi, res_data, drawing_count, pageRequests>> ]_vars
    /\ [][ (pc = "wait" /\ Last(Last(fmtLog').trace).state = "ACTIVE")
              => pc' = "wait" ]_vars
    /\ (pc = "wait") ~> (pc # "wait")

C9_Witness ==
    /\ pc = "wait"
    /\ fmtLog # <<>>
    /\ Len(CurrentStatus) = MaxActive
    /\ Last(CurrentStatus).state = "ACTIVE"

\* submit (not FAILED), then status polls, ACTIVE but for the last, which is neither
\* ACTIVE nor FAILED, then the download of blob `blob`, which returned
CompleteSequence(t, format, blob) ==
    /\ Len(t) >= 3
    /\ t[1].op = "get_drawing_translation"
    /\ t[1].arg = format
    /\ t[1].state # "FAILED"
    /\ \A j \in 2..(Len(t) - 1) : t[j].op = "get_translation_status"
    /\ \A j \in 2..(Len(t) - 2) : t[j].state = "ACTIVE"
    /\ t[Len(t) - 1].state \notin {"ACTIVE", "FAILED"}
    /\ t[Len(t)].op = "download_external_data"
    /\ t[Len(t)].arg = blob
    /\ t[Len(t)].state = "OK"

\* C10: a file appears in the directory only as the last step of a complete sequence
\* for its own tuple: submission not FAILED, polling up to a final state that is
\* neither ACTIVE nor FAILED, download of the first result blob, in that order.
C10_WrittenAfterCompleteSequence ==
    [][ \A f \in (DOMAIN files') \ (DOMAIN files) :
            /\ pc = "download"
            /\ f = OutputFile
            /\ Last(fmtLog').name = f
            /\ Last(fmtLog').written
            /\ res_data.requestState \notin {"ACTIVE", "FAILED"}
            /\ CompleteSequence(Last(fmtLog').trace, formats[fi],
                                res_data.resultExternalDataIds[1]) ]_vars

C10_Witness ==
    /\ fmtLog # <<>>
    /\ Current.written
    /\ Current.name \in DOMAIN files
    /\ res_data.resultExternalDataIds = <<Blob2, Blob1>>
    /\ Last(Current.trace).arg = Blob2
    /\ Len(CurrentStatus) = 2

====
